---------------------------- MODULE Spec2Model ----------------------------
(***************************************************************************)
(* A model of zootopia.py: the loaders, format_value, create_template_dict,*)
(* the HTML renderer, the persister and main.                              *)
(*                                                                         *)
(* Text is modelled character by character: a Python str is a sequence of  *)
(* one-character strings.  The one non-ASCII character the program names,  *)
(* U+2019 RIGHT SINGLE QUOTATION MARK, is written RSQUO.                   *)
(***************************************************************************)
EXTENDS Integers, Sequences, FiniteSets, TLC

VARIABLES
    input_file,        \* animals_data.json as the file system holds it
    template_file,     \* animals_template.html as the file system holds it
    output_file,       \* animals.html: its content and how often it was opened
    pc,                \* the position of the run
    html_template,     \* create_updated_html: what load_html returned
    animals_list,      \* return_list_for_template: its return value
    replacement_str,   \* create_updated_html: what create_str_for_template returned
    updated_html_str,  \* main: what create_updated_html returned
    stdout,            \* the diagnostics printed so far
    exc,               \* the exception that left main, "none" while there is none
    arg,               \* the argument of a function called on its own
    calls              \* the calls made of a function called on its own

vars == <<input_file, template_file, output_file, pc, html_template,
          animals_list, replacement_str, updated_html_str, stdout, exc,
          arg, calls>>

----------------------------------------------------------------------------
(* Characters and the str methods the program uses *)

RSQUO == "U+2019"

LowerLetters ==
    <<"a","b","c","d","e","f","g","h","i","j","k","l","m",
      "n","o","p","q","r","s","t","u","v","w","x","y","z">>

UpperLetters ==
    <<"A","B","C","D","E","F","G","H","I","J","K","L","M",
      "N","O","P","Q","R","S","T","U","V","W","X","Y","Z">>

IsUpper(c) == \E i \in 1..Len(UpperLetters) : UpperLetters[i] = c

IsLower(c) == \E i \in 1..Len(LowerLetters) : LowerLetters[i] = c

IsCased(c) == IsUpper(c) \/ IsLower(c)

IndexIn(c, letters) == CHOOSE i \in 1..Len(letters) : letters[i] = c

chr_lower(c) == IF IsUpper(c) THEN LowerLetters[IndexIn(c, UpperLetters)] ELSE c

chr_upper(c) == IF IsLower(c) THEN UpperLetters[IndexIn(c, LowerLetters)] ELSE c

\* str.lower()
str_lower(s) == [i \in 1..Len(s) |-> chr_lower(s[i])]

\* str.title(): a cased character is upper-cased when the character before
\* it is not cased (or there is none) and lower-cased otherwise; every
\* other character is kept.
str_title(s) ==
    [i \in 1..Len(s) |->
        IF IsCased(s[i])
        THEN IF i > 1 /\ IsCased(s[i - 1]) THEN chr_lower(s[i]) ELSE chr_upper(s[i])
        ELSE s[i]]

\* old occurs in s at position i
OccursAt(s, i, old) ==
    /\ i + Len(old) - 1 <= Len(s)
    /\ \A k \in 1..Len(old) : s[i + k - 1] = old[k]

\* "old in s", for a non-empty old
str_contains(s, old) == \E i \in 1..Len(s) : OccursAt(s, i, old)

RECURSIVE ReplaceFrom(_, _, _, _)
ReplaceFrom(s, i, old, new) ==
    IF i > Len(s) THEN <<>>
    ELSE IF OccursAt(s, i, old)
         THEN new \o ReplaceFrom(s, i + Len(old), old, new)
         ELSE <<s[i]>> \o ReplaceFrom(s, i + 1, old, new)

\* The first occurrence only: what str.replace(old, new, 1) would do.
ReplaceFirstOnly(s, old, new) ==
    IF str_contains(s, old)
    THEN LET i == CHOOSE j \in 1..Len(s) :
                      OccursAt(s, j, old) /\ \A k \in 1..(j - 1) : ~OccursAt(s, k, old)
         IN  SubSeq(s, 1, i - 1) \o new \o SubSeq(s, i + Len(old), Len(s))
    ELSE s

\* str.replace(old, new) for a non-empty old: every occurrence, found from
\* the left, occurrences not overlapping.
str_replace(s, old, new) == ReplaceFrom(s, 1, old, new)

RECURSIVE str_join(_, _)
\* sep.join(parts)
str_join(sep, parts) ==
    IF parts = <<>> THEN <<>>
    ELSE IF Len(parts) = 1 THEN parts[1]
    ELSE parts[1] \o sep \o str_join(sep, Tail(parts))

----------------------------------------------------------------------------
(* Values as json.load returns them.  t is the Python type, s the text of  *)
(* a str (for another scalar: the text str() gives it), items the elements *)
(* of a list.  Absent stands for a key the mapping does not have.          *)

PyStr(s) == [t |-> "str", s |-> s, items |-> <<>>]

PyNone == [t |-> "NoneType", s |-> <<"N","o","n","e">>, items |-> <<>>]

PyInt(digits) == [t |-> "int", s |-> digits, items |-> <<>>]

PyList(items) == [t |-> "list", s |-> <<>>, items |-> items]

Absent == [t |-> "absent", s |-> <<>>, items |-> <<>>]

\* dict.get(key, default)
dict_get(value, default) == IF value = Absent THEN default ELSE value

\* bool(value)
py_truthy(v) ==
    CASE v.t = "str"      -> v.s # <<>>
      [] v.t = "int"      -> v.s # <<"0">>
      [] v.t = "list"     -> v.items # <<>>
      [] OTHER            -> FALSE

\* The text an f-string puts for {value}: a str as it is, None as "None",
\* an int as its digits, the empty list as "[]".
py_format(v) ==
    IF v.t = "list" /\ v.items = <<>> THEN <<"[", "]">> ELSE v.s

----------------------------------------------------------------------------
(* format_value *)

DEFAULT_NA_VALUE == <<"N", "/", "A">>

\* A slip in the pattern: "S" where the code has "’S".
format_value_pattern_slip(value_str) ==
    IF value_str.t = "str" /\ str_lower(value_str.s) # str_lower(DEFAULT_NA_VALUE)
    THEN PyStr(str_replace(str_title(value_str.s), <<"S">>, <<RSQUO, "s">>))
    ELSE value_str

\* The sentinel compared as it is written, not case-insensitively.
format_value_case_sensitive(value_str) ==
    IF value_str.t = "str" /\ value_str.s # DEFAULT_NA_VALUE
    THEN PyStr(str_replace(str_title(value_str.s), <<RSQUO, "S">>, <<RSQUO, "s">>))
    ELSE value_str

\* Without the isinstance test: the text of any value is formatted.
format_value_no_isinstance(value_str) ==
    IF str_lower(py_format(value_str)) # str_lower(DEFAULT_NA_VALUE)
    THEN PyStr(str_replace(str_title(py_format(value_str)),
                           <<RSQUO, "S">>, <<RSQUO, "s">>))
    ELSE value_str

\* Title-casing without the correction that follows it.
format_value_title_only(value_str) ==
    IF value_str.t = "str" /\ str_lower(value_str.s) # str_lower(DEFAULT_NA_VALUE)
    THEN PyStr(str_title(value_str.s))
    ELSE value_str

format_value(value_str) ==
    IF value_str.t = "str" /\ str_lower(value_str.s) # str_lower(DEFAULT_NA_VALUE)
    THEN PyStr(str_replace(str_title(value_str.s), <<RSQUO, "S">>, <<RSQUO, "s">>))
    ELSE value_str

----------------------------------------------------------------------------
(* create_template_dict.  A raw record is [name, locations,               *)
(* characteristics]; name and locations are values or Absent, and          *)
(* characteristics is [t, diet, type] with t = "dict", or t = "absent"     *)
(* when the record has no such key.  The result is [exc, val]: exc names   *)
(* the exception raised ("none": it returned val).                         *)

Characteristics(diet, type) == [t |-> "dict", diet |-> diet, type |-> type]

NoCharacteristics == [t |-> "absent", diet |-> Absent, type |-> Absent]

NoDict == [name |-> Absent, diet |-> Absent, location |-> Absent, type |-> Absent]

\* dict.get("name") without the default: a missing name comes out as None.
create_template_dict_no_default(animal_data) ==
    LET animal_name == dict_get(animal_data.name, PyNone)
        locations_list == dict_get(animal_data.locations, PyNone)
        animal_location ==
            IF py_truthy(locations_list) /\ locations_list.t = "list"
            THEN locations_list.items[1]
            ELSE PyStr(DEFAULT_NA_VALUE)
        animal_diet == dict_get(animal_data.characteristics.diet, PyNone)
        animal_type == dict_get(animal_data.characteristics.type, PyNone)
    IN  IF animal_data.characteristics.t = "absent"
        THEN [exc |-> "KeyError", val |-> NoDict]
        ELSE [exc |-> "none",
              val |-> [name     |-> format_value(animal_name),
                       diet     |-> format_value(animal_diet),
                       location |-> format_value(animal_location),
                       type     |-> format_value(animal_type)]]

create_template_dict(animal_data) ==
    LET animal_name == dict_get(animal_data.name, PyStr(DEFAULT_NA_VALUE))
        locations_list == dict_get(animal_data.locations, PyNone)
        animal_location ==
            IF py_truthy(locations_list) /\ locations_list.t = "list"
            THEN locations_list.items[1]
            ELSE PyStr(DEFAULT_NA_VALUE)
        animal_diet ==
            dict_get(animal_data.characteristics.diet, PyStr(DEFAULT_NA_VALUE))
        animal_type ==
            dict_get(animal_data.characteristics.type, PyStr(DEFAULT_NA_VALUE))
    IN  IF animal_data.characteristics.t = "absent"
        THEN [exc |-> "KeyError", val |-> NoDict]
        ELSE [exc |-> "none",
              val |-> [name     |-> format_value(animal_name),
                       diet     |-> format_value(animal_diet),
                       location |-> format_value(animal_location),
                       type     |-> format_value(animal_type)]]

----------------------------------------------------------------------------
\* The diagnostics printed by persist_updated_html, main and create_updated_html
MsgSaved ==
    "Successfully saved updated HTML to animals.html"

MsgWriteError ==
    "Error: Could not write to file at animals.html."

MsgNoContent ==
    "No HTML content provided to persist. File will not be written."

MsgSkip ==
    "HTML content generation failed or resulted in empty content. Skipping persistence to animals.html."

MsgNoTemplate ==
    "Error: HTML template could not be loaded. Cannot create updated HTML."

----------------------------------------------------------------------------
(* The loaders.  A file is [state, ...]: "absent" (open raises             *)
(* FileNotFoundError), "unreadable" (open or read raises another OSError), *)
(* "undecodable" (its bytes are not UTF-8: read raises UnicodeDecodeError, *)
(* a ValueError), "invalid_json" (json.load raises JSONDecodeError) or     *)
(* "ok".  A loader's result is [exc, none, val, printed]: none says that   *)
(* it returned None.                                                       *)

load_json(file) ==
    CASE file.state = "ok" ->
            [exc |-> "none", none |-> FALSE, val |-> file.data, printed |-> <<>>]
      [] file.state = "absent" ->
            [exc |-> "none", none |-> TRUE, val |-> <<>>,
             printed |-> <<"Error: The file animals_data.json was not found.">>]
      [] file.state = "invalid_json" ->
            [exc |-> "none", none |-> TRUE, val |-> <<>>,
             printed |-> <<"Error: The file animals_data.json is not valid JSON.">>]
      [] file.state = "undecodable" ->
            [exc |-> "UnicodeDecodeError", none |-> FALSE, val |-> <<>>,
             printed |-> <<>>]

load_html(file) ==
    CASE file.state = "ok" ->
            [exc |-> "none", none |-> FALSE, val |-> file.text, printed |-> <<>>]
      [] file.state = "absent" ->
            [exc |-> "none", none |-> TRUE, val |-> <<>>,
             printed |-> <<"Error: File not found at animals_template.html">>]
      [] file.state = "unreadable" ->
            [exc |-> "none", none |-> TRUE, val |-> <<>>,
             printed |-> <<"Error: Could not read file at animals_template.html">>]
      [] file.state = "undecodable" ->
            [exc |-> "UnicodeDecodeError", none |-> FALSE, val |-> <<>>,
             printed |-> <<>>]

----------------------------------------------------------------------------
(* return_list_for_template and create_str_for_template *)

RECURSIVE MapTemplateDict(_)
\* The loop of return_list_for_template: the dicts of the records before
\* the first one that raises, and the exception it raised.
MapTemplateDict(data) ==
    IF data = <<>> THEN [exc |-> "none", val |-> <<>>]
    ELSE LET first == create_template_dict(Head(data))
         IN  IF first.exc # "none" THEN [exc |-> first.exc, val |-> <<>>]
             ELSE LET rest == MapTemplateDict(Tail(data))
                  IN  [exc |-> rest.exc,
                       val |-> IF rest.exc # "none" THEN <<>>
                               ELSE <<first.val>> \o rest.val]

\* Without the test of lines 102-103: the loop runs over None.
return_list_for_template_no_none_test(file) ==
    LET data == load_json(file)
    IN  IF data.exc # "none" THEN [exc |-> data.exc, val |-> <<>>, printed |-> <<>>]
        ELSE IF data.none
        THEN [exc |-> "TypeError", val |-> <<>>, printed |-> data.printed]
        ELSE LET animals == MapTemplateDict(data.val)
             IN  [exc |-> animals.exc, val |-> animals.val, printed |-> <<>>]

return_list_for_template(file) ==
    LET data == load_json(file)
    IN  IF data.exc # "none" THEN [exc |-> data.exc, val |-> <<>>, printed |-> <<>>]
        ELSE IF data.none THEN [exc |-> "none", val |-> <<>>, printed |-> data.printed]
        ELSE LET animals == MapTemplateDict(data.val)
             IN  [exc |-> animals.exc, val |-> animals.val, printed |-> <<>>]

CardOpen ==
    <<"<","l","i"," ","c","l","a","s","s","=","\"","c","a","r","d","s","_",
      "_","i","t","e","m","\"",">","<","d","i","v"," ","c","l","a","s","s",
      "=","\"","c","a","r","d","_","_","t","i","t","l","e","\"",">">>

CardAfterName ==
    <<"<","/","d","i","v",">","<","p"," ","c","l","a","s","s","=","\"","c",
      "a","r","d","_","_","t","e","x","t","\"",">","<","s","t","r","o","n",
      "g",">","D","i","e","t",":","<","/","s","t","r","o","n","g",">"," ">>

CardAfterDiet ==
    <<"<","b","r","/",">","<","s","t","r","o","n","g",">","L","o","c","a",
      "t","i","o","n",":","<","/","s","t","r","o","n","g",">"," ">>

CardAfterLocation ==
    <<"<","b","r","/",">","<","s","t","r","o","n","g",">","T","y","p","e",
      ":","<","/","s","t","r","o","n","g",">"," ">>

CardClose ==
    <<"<","b","r","/",">","<","/","p",">","<","/","l","i",">">>

\* The f-string of create_str_for_template
Card(animal) ==
    CardOpen \o py_format(animal.name) \o CardAfterName \o py_format(animal.diet)
        \o CardAfterDiet \o py_format(animal.location)
        \o CardAfterLocation \o py_format(animal.type) \o CardClose

Cards(animals) == [i \in 1..Len(animals) |-> Card(animals[i])]

create_str_for_template(animals) == str_join(<<"\n", "\n">>, Cards(animals))

----------------------------------------------------------------------------
(* The substitution of create_updated_html and persist_updated_html *)

HTML_PLACEHOLDER_TEXT ==
    <<"_","_","R","E","P","L","A","C","E","_","A","N","I","M","A","L","S",
      "_","I","N","F","O","_","_">>

\* Lines 150-158: the template with the placeholder replaced, "" without one.
Substitute(template, replacement) ==
    IF str_contains(template, HTML_PLACEHOLDER_TEXT)
    THEN str_replace(template, HTML_PLACEHOLDER_TEXT, replacement)
    ELSE <<>>

\* The output file is [state, content, opens]: state "writable", "denied"
\* (open raises an OSError) or "full" (open succeeds and truncates, write
\* raises an OSError); opens counts the times it was opened for writing.
\* The result is [ret, file, printed].

\* Without the test of lines 168-170: the empty string is written too.
persist_updated_html_no_guard(updated_html_str_, file) ==
    CASE file.state = "writable" ->
            [ret |-> TRUE,
             file |-> [file EXCEPT !.content = updated_html_str_, !.opens = @ + 1],
             printed |-> <<MsgSaved>>]
      [] file.state = "full" ->
            [ret |-> FALSE,
             file |-> [file EXCEPT !.content = <<>>, !.opens = @ + 1],
             printed |-> <<MsgWriteError>>]
      [] file.state = "denied" ->
            [ret |-> FALSE, file |-> file,
             printed |-> <<MsgWriteError>>]

persist_updated_html(updated_html_str_, file) ==
    IF updated_html_str_ = <<>>
    THEN [ret |-> FALSE, file |-> file,
          printed |-> <<MsgNoContent>>]
    ELSE CASE file.state = "writable" ->
                 [ret |-> TRUE,
                  file |-> [file EXCEPT !.content = updated_html_str_,
                                        !.opens = @ + 1],
                  printed |-> <<MsgSaved>>]
           [] file.state = "full" ->
                 [ret |-> FALSE,
                  file |-> [file EXCEPT !.content = <<>>, !.opens = @ + 1],
                  printed |-> <<MsgWriteError>>]
           [] file.state = "denied" ->
                 [ret |-> FALSE, file |-> file,
                  printed |-> <<MsgWriteError>>]

----------------------------------------------------------------------------
(* Bounds and the inputs drawn within them *)

MaxLen == 3        \* the longest string format_value is called on

MaxCalls == 2      \* the calls made of a function called on its own

MaxHtmlLen == 2    \* the longest string persist_updated_html is called on

MaxRecords == 2    \* the records of the input file

MaxChunks == 3     \* the pieces a template is put together from

SeqsUpTo(S, n) == UNION {[1..k -> S] : k \in 0..n}

RECURSIVE Concat(_)
Concat(parts) == IF parts = <<>> THEN <<>> ELSE Head(parts) \o Concat(Tail(parts))

\* Letters of the sentinel in both cases, the letter the correction is
\* about, both apostrophes and a word separator.
Alphabet == {"n", "N", "a", "A", "/", "s", "S", RSQUO, "'", " "}

DarwinPlain == <<"d","a","r","w","i","n","'","s"," ","f","o","x">>

DarwinCurly == <<"d","a","r","w","i","n",RSQUO,"s"," ","f","o","x">>

FormatInputs ==
    {PyStr(s) : s \in SeqsUpTo(Alphabet, MaxLen)}
        \cup {PyStr(DarwinPlain), PyStr(DarwinCurly)}
        \cup {PyNone, PyInt(<<"7">>), PyInt(<<"0">>), PyList(<<>>)}

Fox == PyStr(<<"f","o","x">>)

Forest == PyStr(<<"f","o","r","e","s","t">>)

Omnivore == PyStr(<<"o","m","n","i","v","o","r","e">>)

Mammal == PyStr(<<"m","a","m","m","a","l">>)

NameInputs == {Absent, Fox, PyStr(DarwinCurly), PyStr(<<"n","/","a">>), PyNone,
               PyInt(<<"7">>)}

LocationsInputs ==
    {Absent, PyNone, PyList(<<>>), PyList(<<Forest>>), PyList(<<PyNone, Forest>>),
     PyList(<<PyList(<<>>)>>), Forest, PyInt(<<"0">>)}

FieldInputs == {Absent, Omnivore, PyNone}

RawRecords ==
    [name : NameInputs, locations : LocationsInputs,
     characteristics : {NoCharacteristics}
                           \cup {Characteristics(d, t) : d, t \in FieldInputs}]

\* The record of the specification's end-to-end example, a record with
\* nothing but an empty characteristics mapping and a null name, and a
\* record without characteristics.
FoxRecord ==
    [name |-> Fox, locations |-> PyList(<<Forest>>),
     characteristics |-> Characteristics(Omnivore, Mammal)]

SparseRecord ==
    [name |-> PyNone, locations |-> Absent,
     characteristics |-> Characteristics(Absent, Absent)]

BrokenRecord ==
    [name |-> Fox, locations |-> PyList(<<Forest>>),
     characteristics |-> NoCharacteristics]

InputFiles ==
    {[state |-> st, data |-> <<>>] : st \in {"absent", "invalid_json", "undecodable"}}
        \cup {[state |-> "ok", data |-> d] :
                d \in SeqsUpTo({FoxRecord, SparseRecord, BrokenRecord}, MaxRecords)}

TemplateChunks == {HTML_PLACEHOLDER_TEXT, <<"<","u","l",">">>, <<"_">>}

TemplateFiles ==
    {[state |-> st, text |-> <<>>] : st \in {"absent", "unreadable", "undecodable"}}
        \cup {[state |-> "ok", text |-> Concat(c)] :
                c \in SeqsUpTo(TemplateChunks, MaxChunks)}

OldContent == <<"o","l","d">>

OutputFiles ==
    {[state |-> st, content |-> OldContent, opens |-> 0] :
        st \in {"writable", "denied", "full"}}

HtmlArgs == SeqsUpTo({"<", "a"}, MaxHtmlLen)

----------------------------------------------------------------------------
(* The run of main *)

NoTemplate == [none |-> TRUE, text |-> <<>>]

NoLocals ==
    /\ html_template = NoTemplate
    /\ animals_list = <<>>
    /\ replacement_str = <<>>
    /\ updated_html_str = <<>>
    /\ stdout = <<>>
    /\ exc = "none"

Init ==
    /\ input_file \in InputFiles
    /\ template_file \in TemplateFiles
    /\ output_file \in OutputFiles
    /\ pc = "create_updated_html"
    /\ NoLocals
    /\ arg = <<>>
    /\ calls = <<>>

\* create_updated_html, lines 143-148: load_html and the test of its result
LoadTemplate ==
    /\ pc = "create_updated_html"
    /\ LET r == load_html(template_file)
       IN  IF r.exc # "none"
           THEN /\ exc' = r.exc
                /\ pc' = "raised"
                /\ UNCHANGED <<html_template, stdout>>
           ELSE IF r.none
           THEN /\ html_template' = NoTemplate
                /\ stdout' = stdout \o r.printed
                       \o <<MsgNoTemplate>>
                /\ pc' = "main"
                /\ exc' = exc
           ELSE /\ html_template' = [none |-> FALSE, text |-> r.val]
                /\ pc' = "return_list_for_template"
                /\ UNCHANGED <<stdout, exc>>
    /\ updated_html_str' = <<>>
    /\ UNCHANGED <<input_file, template_file, output_file, animals_list,
                   replacement_str, arg, calls>>

\* return_list_for_template, lines 101-109, called from line 118
ReturnListForTemplate ==
    /\ pc = "return_list_for_template"
    /\ LET r == return_list_for_template(input_file)
       IN  IF r.exc # "none"
           THEN /\ exc' = r.exc
                /\ pc' = "raised"
                /\ UNCHANGED <<animals_list, stdout>>
           ELSE /\ animals_list' = r.val
                /\ stdout' = stdout \o r.printed
                /\ pc' = "create_str_for_template"
                /\ exc' = exc
    /\ UNCHANGED <<input_file, template_file, output_file, html_template,
                   replacement_str, updated_html_str, arg, calls>>

\* create_str_for_template, lines 119-131, called from line 149
CreateStrForTemplate ==
    /\ pc = "create_str_for_template"
    /\ replacement_str' = create_str_for_template(animals_list)
    /\ pc' = "substitute"
    /\ UNCHANGED <<input_file, template_file, output_file, html_template,
                   animals_list, updated_html_str, stdout, exc, arg, calls>>

\* create_updated_html, lines 150-158
SubstitutePlaceholder ==
    /\ pc = "substitute"
    /\ updated_html_str' = Substitute(html_template.text, replacement_str)
    /\ pc' = "main"
    /\ UNCHANGED <<input_file, template_file, output_file, html_template,
                   animals_list, replacement_str, stdout, exc, arg, calls>>

\* main, lines 191-192
MainPersist ==
    /\ pc = "main"
    /\ updated_html_str # <<>>
    /\ LET r == persist_updated_html(updated_html_str, output_file)
       IN  /\ output_file' = r.file
           /\ stdout' = stdout \o r.printed
    /\ pc' = "done"
    /\ UNCHANGED <<input_file, template_file, html_template, animals_list,
                   replacement_str, updated_html_str, exc, arg, calls>>

\* main, lines 193-196
MainSkip ==
    /\ pc = "main"
    /\ updated_html_str = <<>>
    /\ stdout' = Append(stdout,
           MsgSkip)
    /\ pc' = "done"
    /\ UNCHANGED <<input_file, template_file, output_file, html_template,
                   animals_list, replacement_str, updated_html_str, exc, arg,
                   calls>>

Next ==
    \/ LoadTemplate
    \/ ReturnListForTemplate
    \/ CreateStrForTemplate
    \/ SubstitutePlaceholder
    \/ MainPersist
    \/ MainSkip

Spec == Init /\ [][Next]_vars

----------------------------------------------------------------------------
(* Functions called on their own *)

NoRun ==
    /\ input_file = [state |-> "absent", data |-> <<>>]
    /\ template_file = [state |-> "absent", text |-> <<>>]
    /\ NoLocals

InitFormat ==
    /\ NoRun
    /\ output_file = [state |-> "writable", content |-> OldContent, opens |-> 0]
    /\ pc = "format_value"
    /\ arg \in FormatInputs
    /\ calls = <<>>

\* format_value on arg, then on what the call before returned
CallFormatValue ==
    /\ pc = "format_value"
    /\ Len(calls) < MaxCalls
    /\ LET v == IF calls = <<>> THEN arg ELSE calls[Len(calls)].ret
       IN  calls' = Append(calls, [arg |-> v, ret |-> format_value(v)])
    /\ UNCHANGED <<input_file, template_file, output_file, pc, html_template,
                   animals_list, replacement_str, updated_html_str, stdout,
                   exc, arg>>

NextFormat == CallFormatValue

SpecFormat == InitFormat /\ [][NextFormat]_vars

InitNormalize ==
    /\ NoRun
    /\ output_file = [state |-> "writable", content |-> OldContent, opens |-> 0]
    /\ pc = "create_template_dict"
    /\ arg \in RawRecords
    /\ calls = <<>>

CallCreateTemplateDict ==
    /\ pc = "create_template_dict"
    /\ calls = <<>>
    /\ LET r == create_template_dict(arg)
       IN  calls' = <<[arg |-> arg, exc |-> r.exc, ret |-> r.val]>>
    /\ UNCHANGED <<input_file, template_file, output_file, pc, html_template,
                   animals_list, replacement_str, updated_html_str, stdout,
                   exc, arg>>

NextNormalize == CallCreateTemplateDict

SpecNormalize == InitNormalize /\ [][NextNormalize]_vars

InitPersist ==
    /\ NoRun
    /\ output_file \in OutputFiles
    /\ pc = "persist_updated_html"
    /\ arg = <<>>
    /\ calls = <<>>

\* persist_updated_html(html, file_path=OUTPUT_HTML_FILE)
CallPersist ==
    /\ pc = "persist_updated_html"
    /\ Len(calls) < MaxCalls
    /\ \E html \in HtmlArgs :
          LET r == persist_updated_html(html, output_file)
          IN  /\ output_file' = r.file
              /\ stdout' = stdout \o r.printed
              /\ calls' = Append(calls,
                     [arg |-> html, ret |-> r.ret, before |-> output_file,
                      after |-> r.file, printed |-> r.printed])
    /\ UNCHANGED <<input_file, template_file, pc, html_template, animals_list,
                   replacement_str, updated_html_str, exc, arg>>

NextPersist == CallPersist

SpecPersist == InitPersist /\ [][NextPersist]_vars

----------------------------------------------------------------------------
(* create_template_dict: the defaults and the types of the fields *)

Sentinel == PyStr(DEFAULT_NA_VALUE)

\* locations is absent, empty or not a list
LocationsMissing(locations) ==
    locations = Absent \/ locations.t # "list" \/ locations.items = <<>>

\* The value a field of the normalized record is made from, Absent when
\* the record does not have it.
FieldSource(animal_data, field) ==
    CASE field = "name" -> animal_data.name
      [] field = "diet" -> animal_data.characteristics.diet
      [] field = "type" -> animal_data.characteristics.type
      [] field = "location" ->
            IF LocationsMissing(animal_data.locations) THEN Absent
            ELSE animal_data.locations.items[1]

FieldNames == {"name", "diet", "location", "type"}

FieldOf(dict, field) ==
    CASE field = "name" -> dict.name
      [] field = "diet" -> dict.diet
      [] field = "type" -> dict.type
      [] field = "location" -> dict.location

\* C1: for every raw record with a characteristics mapping,
\* create_template_dict returns, and each field whose input is missing
\* (name: no name key; location: locations absent, empty or not a list;
\* diet, type: no such key in characteristics) is the sentinel "N/A", while
\* each field whose input is present is format_value of that input,
\* whatever the other fields are.
C1_MissingFieldsAreSentinel ==
    \A i \in 1..Len(calls) :
        (pc = "create_template_dict" /\ calls[i].arg.characteristics.t = "dict") =>
            /\ calls[i].exc = "none"
            /\ \A f \in FieldNames :
                  LET source == FieldSource(calls[i].arg, f)
                  IN  /\ source = Absent => FieldOf(calls[i].ret, f) = Sentinel
                      /\ source # Absent =>
                            FieldOf(calls[i].ret, f) = format_value(source)

\* A record with no name, a locations value that is no list and no type,
\* and a diet: three defaults next to one present field.
C1_Witness ==
    /\ pc = "create_template_dict"
    /\ calls # <<>>
    /\ calls[1].arg.name = Absent
    /\ calls[1].arg.locations = Forest
    /\ calls[1].arg.characteristics = Characteristics(Omnivore, Absent)
    /\ calls[1].ret.name = Sentinel
    /\ calls[1].ret.location = Sentinel
    /\ calls[1].ret.type = Sentinel
    /\ calls[1].ret.diet.s = <<"O","m","n","i","v","o","r","e">>

\* C2, as claimed: each of the four fields of every normalized record is
\* a string.
C2_EveryFieldIsAString ==
    \A i \in 1..Len(calls) :
        (pc = "create_template_dict" /\ calls[i].exc = "none") =>
            \A f \in FieldNames : FieldOf(calls[i].ret, f).t = "str"

\* C2, amended: no field of a normalized record is absent; a field whose
\* input is missing or a string is a string; a field whose input is not a
\* string (null, a number, a nested value) is that input, unchanged.
C2_FieldIsStringOrRawValue ==
    \A i \in 1..Len(calls) :
        (pc = "create_template_dict" /\ calls[i].exc = "none") =>
            \A f \in FieldNames :
                LET source == FieldSource(calls[i].arg, f)
                    out == FieldOf(calls[i].ret, f)
                IN  /\ out.t # "absent"
                    /\ (source = Absent \/ source.t = "str") => out.t = "str"
                    /\ (source # Absent /\ source.t # "str") => out = source

\* A null name and a nested first location come out as they are, next to a
\* defaulted diet.
C2_Witness ==
    /\ pc = "create_template_dict"
    /\ calls # <<>>
    /\ calls[1].exc = "none"
    /\ calls[1].arg.name = PyNone
    /\ calls[1].ret.name = PyNone
    /\ calls[1].ret.location = PyList(<<>>)
    /\ calls[1].arg.characteristics.diet = Absent
    /\ calls[1].ret.diet = Sentinel

----------------------------------------------------------------------------
(* format_value *)

DarwinTitled == <<"D","a","r","w","i","n",RSQUO,"s"," ","F","o","x">>

\* The spellings of the sentinel
SentinelSpellings == {<<n, "/", a>> : n \in {"n", "N"}, a \in {"a", "A"}}

C5_SentinelPassthrough ==
    \A i \in 1..Len(calls) :
        (/\ pc = "format_value"
         /\ \/ calls[i].arg.t # "str"
            \/ calls[i].arg.s \in SentinelSpellings) =>
            calls[i].ret = calls[i].arg

\* The lowercase sentinel was passed and came back in lower case.
C5_Witness ==
    /\ pc = "format_value"
    /\ calls # <<>>
    /\ calls[1].arg = PyStr(<<"n", "/", "a">>)
    /\ calls[1].ret = PyStr(<<"n", "/", "a">>)

----------------------------------------------------------------------------
(* persist_updated_html *)

\* The call wrote nothing: the file is as it was, and was not opened.
NoWrite(call) == call.after = call.before

\* The call was given content and its write failed with an I/O fault.
FailedWrite(call) == call.arg # <<>> /\ call.before.state \in {"denied", "full"}

\* C7, as claimed: called with the empty string, persist_updated_html
\* writes nothing, and what it returns differs from what it returns when a
\* write of non-empty content fails.
C7_SkippedDiffersFromFailure ==
    \A i, j \in 1..Len(calls) :
        (pc = "persist_updated_html" /\ calls[i].arg = <<>>) =>
            /\ NoWrite(calls[i])
            /\ FailedWrite(calls[j]) => calls[i].ret # calls[j].ret

\* C7, amended: called with the empty string, persist_updated_html writes
\* nothing and returns False, the value it also returns when a write of
\* non-empty content fails; the two outcomes differ in the diagnostic
\* printed and in nothing that is returned.
C7_SkippedReturnsFalseAsFailureDoes ==
    \A i \in 1..Len(calls) :
        pc = "persist_updated_html" =>
            /\ calls[i].arg = <<>> =>
                  /\ NoWrite(calls[i])
                  /\ calls[i].ret = FALSE
                  /\ calls[i].printed = <<MsgNoContent>>
            /\ FailedWrite(calls[i]) =>
                  /\ calls[i].ret = FALSE
                  /\ calls[i].printed = <<MsgWriteError>>

\* A write of content that failed and a call with the empty string, which
\* wrote nothing: both returned the same value.
C7_Witness ==
    /\ pc = "persist_updated_html"
    /\ \E i, j \in 1..Len(calls) :
          /\ FailedWrite(calls[i])
          /\ calls[j].arg = <<>>
          /\ NoWrite(calls[j])
          /\ calls[i].ret = calls[j].ret
          /\ calls[i].printed # calls[j].printed

----------------------------------------------------------------------------
(* The run of main *)

\* The output file is as it was before the run and was never opened.
OutputUntouched == output_file.content = OldContent /\ output_file.opens = 0

HasPlaceholder(text) == \E i \in 1..Len(text) : OccursAt(text, i, HTML_PLACEHOLDER_TEXT)

\* The template cannot be loaded, or is loaded and has no placeholder.
TemplateUnusable ==
    template_file.state # "ok" \/ ~HasPlaceholder(template_file.text)

RunEnded == pc \in {"done", "raised"}

\* create_updated_html has returned to main
Returned == pc \in {"main", "done"}

\* C6: in every run in which the template cannot be loaded or has no
\* placeholder, the output file is never opened or written, and
\* create_updated_html yields the empty string: the run does not end
\* before it has.
C6_EmptyResultAndNoWrite ==
    TemplateUnusable =>
        /\ OutputUntouched
        /\ Returned => updated_html_str = <<>>
        /\ RunEnded => (pc = "done" /\ exc = "none")

\* The part of C6 about the output file alone: whatever the run does, also
\* when an exception ends it, the file is left as it was.
OutputUntouchedWithoutPlaceholder == TemplateUnusable => OutputUntouched

\* C8: whatever the input file, the template and the output file are, no
\* exception leaves main.
C8_NoExceptionLeavesMain == pc # "raised" /\ exc = "none"

\* The position of the first occurrence of old in s
FirstIndex(s, old) ==
    CHOOSE i \in 1..Len(s) :
        OccursAt(s, i, old) /\ \A k \in 1..(i - 1) : ~OccursAt(s, k, old)

RECURSIVE SplitOn(_, _)
\* The pieces of s between the occurrences of old
SplitOn(s, old) ==
    IF \E i \in 1..Len(s) : OccursAt(s, i, old)
    THEN LET i == FirstIndex(s, old)
         IN  <<SubSeq(s, 1, i - 1)>> \o SplitOn(SubSeq(s, i + Len(old), Len(s)), old)
    ELSE <<s>>

RECURSIVE Interleave(_, _)
\* The pieces with filler between each two of them
Interleave(pieces, filler) ==
    IF Len(pieces) = 1 THEN pieces[1]
    ELSE pieces[1] \o filler \o Interleave(Tail(pieces), filler)

RECURSIVE FragmentsFrom(_, _)
\* The cards of the records from the k-th on, each after the first of all
\* with the blank line before it
FragmentsFrom(records, k) ==
    IF k > Len(records) THEN <<>>
    ELSE (IF k = 1 THEN <<>> ELSE <<"\n", "\n">>)
            \o Card(create_template_dict(records[k]).val)
            \o FragmentsFrom(records, k + 1)

\* The template was loaded with a placeholder and create_updated_html has
\* returned.
Substituted ==
    /\ Returned
    /\ template_file.state = "ok"
    /\ HasPlaceholder(template_file.text)

\* The records the program goes on with: those loaded, none when the input
\* file is absent or not valid JSON
LoadedRecords == IF input_file.state = "ok" THEN input_file.data ELSE <<>>

\* C9, as claimed: the result is the template with its first occurrence of
\* the placeholder replaced by the cards, the rest of the template as it
\* was.
C9_FirstOccurrenceReplaced ==
    Substituted =>
        LET text == template_file.text
            i == FirstIndex(text, HTML_PLACEHOLDER_TEXT)
        IN  updated_html_str =
                SubSeq(text, 1, i - 1) \o FragmentsFrom(LoadedRecords, 1)
                    \o SubSeq(text, i + Len(HTML_PLACEHOLDER_TEXT), Len(text))

\* C9, amended: the result is the template with every occurrence of the
\* placeholder replaced by the cards, one card per loaded record, in the
\* order of the records, a blank line between two cards; the text between
\* the occurrences is as it was.
C9_EveryOccurrenceReplaced ==
    Substituted =>
        /\ Len(animals_list) = Len(LoadedRecords)
        /\ replacement_str = FragmentsFrom(LoadedRecords, 1)
        /\ updated_html_str =
              Interleave(SplitOn(template_file.text, HTML_PLACEHOLDER_TEXT),
                         replacement_str)

\* A template with two placeholders and text between them, two records:
\* the run has ended and both placeholders are gone.
C9_Witness ==
    /\ pc = "done"
    /\ template_file.state = "ok"
    /\ Len(SplitOn(template_file.text, HTML_PLACEHOLDER_TEXT)) = 3
    /\ SplitOn(template_file.text, HTML_PLACEHOLDER_TEXT)[2] # <<>>
    /\ Len(animals_list) = 2
    /\ animals_list[1] # animals_list[2]
    /\ ~HasPlaceholder(updated_html_str)

\* The input file is absent or is rejected by the JSON parser, and the
\* template is loaded with a placeholder.
NoDataAndTemplate ==
    /\ input_file.state \in {"absent", "invalid_json"}
    /\ template_file.state = "ok"
    /\ HasPlaceholder(template_file.text)

\* The template is nothing but placeholders.
OnlyPlaceholders(text) ==
    \A piece \in {SplitOn(text, HTML_PLACEHOLDER_TEXT)[k] :
                    k \in 1..Len(SplitOn(text, HTML_PLACEHOLDER_TEXT))} : piece = <<>>

\* main called persist_updated_html, which tried to write.
PersistTried ==
    /\ stdout # <<>>
    /\ stdout[Len(stdout)] \in {MsgSaved, MsgWriteError}
    /\ output_file.state = "writable" =>
          (output_file.content = updated_html_str /\ output_file.opens = 1)

============================================================================
